---- MODULE Spec2Model ----
(***************************************************************************)
(* letui-ffi: the double-buffered cell grid, its diff renderer (flush),    *)
(* the terminal size, the layout request (calculate_layout) and the        *)
(* pointer/length getters of src/letui-ffi/src/lib.rs, as a state machine. *)
(* Under Spec every exported function is one atomic action: the caller is  *)
(* a single thread.  SpecPack, SpecLayout and SpecScreen are runs of that  *)
(* caller on a given colour, on a given tree, and with the terminal's      *)
(* display observed.  Under SpecConc two threads call the functions, each  *)
(* call a sequence of steps, one for each mutex it locks.                  *)
(*                                                                         *)
(* A panic inside an extern "C" function aborts the process (the crate     *)
(* uses #[unsafe(no_mangle)], so the toolchain is one where such a panic   *)
(* does not unwind across the boundary): the call never returns, and no    *)
(* later call can be made.  That is the variable `crashed`.                *)
(***************************************************************************)
EXTENDS Integers, Sequences, FiniteSets, TLC

(***************************************************************************)
(* Bounds of the model.                                                    *)
(***************************************************************************)
\* the terminal reports widths and heights in 1..MaxDim (u16 in the source)
MaxDim == 2
\* cell writes the caller makes after one init_buffer
MaxWrites == 2

\* lib.rs:24 is 2_000_000 words, which is no multiple of 3; scaled down to
\* two whole cells and a word that belongs to no whole cell.
MAX_BUFFER_SIZE == 7

NULL == 0
\* Heap addresses: at most three allocations are live between calls (the two
\* grids and the frame list) and a call allocates the new one before it drops
\* the old one.
Addr == 1..4
Dims == 1..MaxDim

\* The cells the caller writes, as (codepoint, fg, bg) words: the empty cell,
\* 'A' (65) in red (0xFF0000 = 16711680) on black, the same on rgb (0,0,65),
\* and a cell whose codepoint word, 0xD800 = 55296, is a surrogate.
CellValues == {<<0, 0, 0>>, <<65, 16711680, 0>>, <<65, 16711680, 65>>, <<55296, 0, 0>>}

\* the cells that lie wholly inside the buffer
WholeCells == MAX_BUFFER_SIZE \div 3

None == [some |-> FALSE]
Some(x) == [some |-> TRUE, v |-> x]

VARIABLES
    cb,         \* CURRENT_BUFFER: None, or Some([addr, data]) with data : 0..MAX_BUFFER_SIZE-1 -> word
    lb,         \* LAST_BUFFER, the same shape
    term_size,  \* TERMINAL_SIZE: <<w, h>>
    frames,     \* FRAMES: None, or Some([addr, data]) with data a sequence of f32
    heap,       \* the addresses of the live allocations
    crashed,    \* a call panicked: the process is aborted
    lastOp,     \* the state-changing call made last
    ret,        \* the status code it returned (unchanged when it did not return)
    emitted,    \* the terminal commands it queued
    writes,     \* cell writes since the last init_buffer
    arg,        \* the payload of the last call, when it was calculate_layout
    streak,     \* history: flush calls made in a row, counted up to 2
    allocated,  \* history: init_buffer has returned and free_buffer has not run since
    solved,     \* history: a calculate_layout call has returned
    given,      \* the input under test, where a specification fixes one; None otherwise
    screen,     \* the terminal's cells as last printed, where a specification observes them; None otherwise
    pc,         \* for each calling thread, where it stands inside a call
    lock        \* for each of the four mutexes, the thread that holds it, or 0

vars == <<cb, lb, term_size, frames, heap, crashed, lastOp, ret, emitted, writes,
          arg, streak, allocated, solved, given, screen, pc, lock>>

Max(a, b) == IF a >= b THEN a ELSE b

(***************************************************************************)
(* The terminal: crossterm's size() gives a (w, h) pair or an error.       *)
(***************************************************************************)
SizeResults == {[ok |-> TRUE, w |-> w, h |-> h] : w \in Dims, h \in Dims}
                 \cup {[ok |-> FALSE]}

\* Box::new([0u64; MAX_BUFFER_SIZE])
ZeroBuffer == [i \in 0..(MAX_BUFFER_SIZE - 1) |-> 0]

(***************************************************************************)
(* flush's decoding of a cell.                                             *)
(***************************************************************************)
\* `new[0] as u32`: the low 32 bits of the word.  The words of this model are
\* all below 2^31 (the largest integer of the model checker), where the low
\* 32 bits are the word itself.
AsU32(word) == word

\* char::from_u32: a Unicode scalar value, i.e. not a surrogate and at most 0x10FFFF
IsChar(u) == (u >= 0 /\ u <= 55295) \/ (u >= 57344 /\ u <= 1114111)

\* Faulty variant: the red and the blue channel are taken from each other's bits.
Rgb_bgr(v) == <<v % 256, (v \div 256) % 256, (v \div 65536) % 256>>

\* Color::Rgb { r: ((v >> 16) & 0xFF) as u8, g: ((v >> 8) & 0xFF) as u8, b: (v & 0xFF) as u8 }
Rgb(v) == <<(v \div 65536) % 256, (v \div 256) % 256, v % 256>>

\* the three words of cell idx of a buffer
Cell(data, idx) == <<data[3 * idx], data[3 * idx + 1], data[3 * idx + 2]>>

\* the queue!(MoveTo, SetForegroundColor, SetBackgroundColor, Print) of one changed cell
UpdateCmd(new, idx, w) ==
    [cmd |-> "Update",
     x   |-> (idx % w) % 65536,
     y   |-> (idx \div w) % 65536,
     fg  |-> Rgb(new[2]),
     bg  |-> Rgb(new[3]),
     ch  |-> AsU32(new[1])]

\* The for loop of flush over chunks_exact(3) of buf[0..used*3] zipped with
\* last_buf[0..used*3], from cell idx on: the commands queued, and whether
\* char::from_u32(..).unwrap() panicked (the loop stops there).
RECURSIVE ScanFrom(_, _, _, _, _, _)
ScanFrom(buf, last, w, used, idx, acc) ==
    IF idx >= used THEN [out |-> acc, panicked |-> FALSE]
    ELSE LET new == Cell(buf, idx)
             old == Cell(last, idx)
         IN  IF new # old
             THEN IF IsChar(AsU32(new[1]))
                  THEN ScanFrom(buf, last, w, used, idx + 1,
                                Append(acc, UpdateCmd(new, idx, w)))
                  ELSE [out |-> acc, panicked |-> TRUE]
             ELSE ScanFrom(buf, last, w, used, idx + 1, acc)

\* buf[0..used_cells * 3] panics when used_cells * 3 > MAX_BUFFER_SIZE
SliceInRange(used) == used * 3 <= MAX_BUFFER_SIZE

(***************************************************************************)
(* The layout request.  A payload is a JSON document, modelled as a record *)
(* whose fields are the JSON object's keys; serde fails when a key of the  *)
(* struct is missing (no field of Node or Tree has a default).             *)
(***************************************************************************)
NodeKeys == {"type", "gap", "paddingX", "paddingY", "border", "text", "children"}
TreeKeys == {"node", "width", "height"}

JsonNode(t, g, px, py, b, txt, kids) ==
    [type |-> t, gap |-> g, paddingX |-> px, paddingY |-> py, border |-> b,
     text |-> txt, children |-> kids]

\* a single padded root
DocLeaf == [node |-> JsonNode("text", 0, 1, 0, 0, "hi", <<>>), width |-> 6, height |-> 3]
\* root R = row [A = text "hi", B = column [button "ok"]]
DocRow ==
    [node |-> JsonNode("row", 1, 0, 0, 1, "",
                 <<JsonNode("text", 0, 1, 0, 0, "hi", <<>>),
                   JsonNode("column", 0, 0, 1, 0, "",
                       <<JsonNode("button", 0, 1, 1, 0, "ok", <<>>)>>)>>),
     width |-> 9, height |-> 5]
\* malformed: the document has no "height"
DocNoHeight == [node |-> JsonNode("text", 0, 1, 0, 0, "hi", <<>>), width |-> 6]
\* malformed: a child has no "text"
DocBadChild ==
    [node |-> JsonNode("row", 0, 0, 0, 0, "",
                 <<[type |-> "text", gap |-> 0, paddingX |-> 0, paddingY |-> 0,
                    border |-> 0, children |-> <<>>]>>),
     width |-> 6, height |-> 3]

Payloads == {DocLeaf, DocRow, DocNoHeight, DocBadChild}

\* serde's derived Deserialize for Node: every key present, every child a Node
RECURSIVE NodeParses(_)
NodeParses(d) ==
    /\ NodeKeys \subseteq DOMAIN d
    /\ \A i \in 1..Len(d.children) : NodeParses(d.children[i])

RECURSIVE ParseNode(_)
ParseNode(d) ==
    [node_type |-> d.type, gap |-> d.gap, padding_x |-> d.paddingX,
     padding_y |-> d.paddingY, border |-> d.border, text |-> d.text,
     children  |-> [i \in 1..Len(d.children) |-> ParseNode(d.children[i])]]

\* serde_json::from_slice::<Tree>: Ok(tree) or Err
from_slice(doc) ==
    IF TreeKeys \subseteq DOMAIN doc /\ NodeParses(doc.node)
    THEN [ok |-> TRUE,
          tree |-> [node |-> ParseNode(doc.node), width |-> doc.width, height |-> doc.height]]
    ELSE [ok |-> FALSE]

\* the tree a payload parses to
TreeOf(doc) == from_slice(doc).tree

(***************************************************************************)
(* get_styles, build_taffy_tree and taffy's compute_layout as this crate   *)
(* calls it: no node is given a size and no measure function is passed, so *)
(* every box is sized by its padding, border and children; the available   *)
(* space does not change an auto-sized single-line flex root.  Node kinds  *)
(* other than "column" keep taffy's default direction, Row.  The gap is    *)
(* Style.gap.width, the gap between columns, so it separates the children  *)
(* of a row; a column's children are separated by gap.height, zero.        *)
(* align_items is left to its default, stretch.                            *)
(***************************************************************************)
IsColumn(n) == n.node_type = "column"
HInset(n) == 2 * (n.padding_x + n.border)
VInset(n) == 2 * (n.padding_y + n.border)

RECURSIVE SumSeq(_)
SumSeq(s) == IF s = <<>> THEN 0 ELSE Head(s) + SumSeq(Tail(s))
RECURSIVE MaxSeq(_)
MaxSeq(s) == IF s = <<>> THEN 0 ELSE Max(Head(s), MaxSeq(Tail(s)))

\* the content-based outer size of a node
RECURSIVE OuterW(_)
OuterW(n) ==
    LET ws == [i \in 1..Len(n.children) |-> OuterW(n.children[i])]
    IN  HInset(n) + IF n.children = <<>> THEN 0
                    ELSE IF IsColumn(n) THEN MaxSeq(ws)
                    ELSE SumSeq(ws) + n.gap * (Len(ws) - 1)
RECURSIVE OuterH(_)
OuterH(n) ==
    LET hs == [i \in 1..Len(n.children) |-> OuterH(n.children[i])]
    IN  VInset(n) + IF n.children = <<>> THEN 0
                    ELSE IF IsColumn(n) THEN SumSeq(hs)
                    ELSE MaxSeq(hs)

\* taffy's Layout of a node placed at (x, y) relative to its parent with the
\* size (w, h), and of its subtree: children of a row are laid out left to
\* right and stretched to the row's inner height, children of a column top
\* to bottom and stretched to its inner width.
RECURSIVE LayoutOf(_, _, _, _, _)
LayoutOf(n, x, y, w, h) ==
    LET kids == n.children
        x0 == n.border + n.padding_x
        y0 == n.border + n.padding_y
        Before(i) == IF IsColumn(n)
                     THEN SumSeq([j \in 1..(i - 1) |-> OuterH(kids[j])])
                     ELSE SumSeq([j \in 1..(i - 1) |-> OuterW(kids[j]) + n.gap])
    IN  [x |-> x, y |-> y, width |-> w, height |-> h,
         children |->
            [i \in 1..Len(kids) |->
                IF IsColumn(n)
                THEN LayoutOf(kids[i], x0, y0 + Before(i), w - HInset(n), OuterH(kids[i]))
                ELSE LayoutOf(kids[i], x0 + Before(i), y0, OuterW(kids[i]), h - VInset(n))]]

\* taffy.compute_layout(root, Size { width: length(tree.width), height: length(tree.height) })
compute_layout(tree) == LayoutOf(tree.node, 0, 0, OuterW(tree.node), OuterH(tree.node))

\* Faulty variant: a node's frame is pushed after those of its subtree.
RECURSIVE build_frames_array_post(_, _, _, _)
build_frames_array_post(layout, out, offset_x, offset_y) ==
    LET absolute_x == offset_x + layout.x
        absolute_y == offset_y + layout.y
        RECURSIVE Kids(_, _)
        Kids(i, acc) ==
            IF i > Len(layout.children) THEN acc
            ELSE Kids(i + 1, build_frames_array_post(layout.children[i], acc,
                                                     absolute_x, absolute_y))
    IN  Kids(1, out) \o <<absolute_x, absolute_y, layout.width, layout.height>>

\* build_frames_array: the node's absolute frame, then each child's subtree in order
RECURSIVE build_frames_array(_, _, _, _)
build_frames_array(layout, out, offset_x, offset_y) ==
    LET absolute_x == offset_x + layout.x
        absolute_y == offset_y + layout.y
        own == out \o <<absolute_x, absolute_y, layout.width, layout.height>>
        RECURSIVE Kids(_, _)
        Kids(i, acc) ==
            IF i > Len(layout.children) THEN acc
            ELSE Kids(i + 1, build_frames_array(layout.children[i], acc, absolute_x, absolute_y))
    IN  Kids(1, own)

(***************************************************************************)
(* The getters, as the values they return in the current state.            *)
(***************************************************************************)
\* buf.as_ptr(), or null_mut()
BufferPtr == IF cb.some THEN cb.v.addr ELSE NULL
\* Faulty variant: the length is that of the visible part of the grid.
BufferLen_used == IF cb.some THEN term_size[1] * term_size[2] * 3 ELSE 0

\* buf.len(), or 0
BufferLen == IF cb.some THEN MAX_BUFFER_SIZE ELSE 0
\* vec.as_ptr(), or null()
FramesPtr == IF frames.some THEN frames.v.addr ELSE NULL
\* vec.len(), or 0
FramesLen == IF frames.some THEN Len(frames.v.data) ELSE 0

(***************************************************************************)
(* The terminal's display: what each position shows is what was printed    *)
(* there last.                                                             *)
(***************************************************************************)
Positions == (0..(MaxDim - 1)) \X (0..(MaxDim - 1))
\* Clear(ClearType::All): no position shows anything
Blank == [p \in Positions |-> [ch |-> 0, fg |-> <<0, 0, 0>>, bg |-> <<0, 0, 0>>]]

\* MoveTo(x, y), SetForegroundColor, SetBackgroundColor, Print(ch), for each
\* queued update in turn: a position shows the last update queued for it
Paint(scr, cmds) ==
    [p \in Positions |->
        LET hits == {j \in 1..Len(cmds) :
                        cmds[j].cmd = "Update" /\ <<cmds[j].x, cmds[j].y>> = p}
        IN  IF hits = {} THEN scr[p]
            ELSE LET j == CHOOSE k \in hits : \A l \in hits : l <= k
                 IN  [ch |-> cmds[j].ch, fg |-> cmds[j].fg, bg |-> cmds[j].bg]]

(***************************************************************************)
(* The calling threads and the four mutexes.                               *)
(***************************************************************************)
Threads == {1, 2}
LockNames == {"TERMINAL_SIZE", "CURRENT_BUFFER", "LAST_BUFFER", "FRAMES"}
Idle == [at |-> "idle"]

(***************************************************************************)
(* Init: the statics as the program starts.                                *)
(***************************************************************************)
Statics ==
    /\ cb = None
    /\ lb = None
    /\ term_size = <<0, 0>>
    /\ frames = None
    /\ heap = {}
    /\ crashed = FALSE
    /\ lastOp = "none"
    /\ ret = 0
    /\ emitted = <<>>
    /\ writes = 0
    /\ arg = None
    /\ streak = 0
    /\ allocated = FALSE
    /\ solved = FALSE
    /\ pc = [t \in Threads |-> Idle]
    /\ lock = [l \in LockNames |-> 0]

\* no input is fixed and the display is not observed
Init ==
    /\ Statics
    /\ given = None
    /\ screen = None

\* the history of a call of op
Called(op) ==
    /\ lastOp' = op
    /\ streak' = IF op = "flush" THEN (IF streak < 2 THEN streak + 1 ELSE 2) ELSE 0
    /\ IF op = "calculate_layout" THEN TRUE ELSE arg' = None
    /\ UNCHANGED <<given, pc, lock>>

\* a call that panics: the process aborts with the commands queued so far
Panic(op, queued) ==
    /\ crashed' = TRUE
    /\ Called(op)
    /\ emitted' = queued
    /\ UNCHANGED <<cb, lb, term_size, frames, heap, ret, writes, allocated, solved, screen>>

(***************************************************************************)
(* init_buffer                                                             *)
(***************************************************************************)
\* Faulty variant: a previous grid that exists already keeps its words.
Snapshot_keep(b, data) ==
    IF lb.some THEN Some([addr |-> b, data |-> lb.v.data])
    ELSE Some([addr |-> b, data |-> data])

\* if let Some(ref buf) = *cb { *lb = Some(buf.clone()); }: a new box at b
\* holding the words of the grid just stored in CURRENT_BUFFER
Snapshot(b, data) == Some([addr |-> b, data |-> data])

\* init_buffer on a terminal that reports the size sz: lines 34-44
InitBufferSized(sz) ==
    \E a \in Addr \ heap :
        LET heap1 == (heap \cup {a}) \ (IF cb.some THEN {cb.v.addr} ELSE {})
        IN  \E b \in Addr \ heap1 :
              /\ term_size' = <<sz.w, sz.h>>
              /\ cb' = Some([addr |-> a, data |-> ZeroBuffer])
              /\ lb' = Snapshot(b, ZeroBuffer)
              /\ heap' = (heap1 \cup {b}) \ (IF lb.some THEN {lb.v.addr} ELSE {})
              /\ writes' = 0
              /\ Called("init_buffer")
              /\ ret' = 1
              /\ emitted' = <<>>
              /\ allocated' = TRUE
              \* the observed display starts over with the new grids
              /\ screen' = IF screen.some THEN Some(Blank) ELSE screen
              /\ UNCHANGED <<frames, crashed, solved>>

init_buffer ==
    /\ ~crashed
    /\ \E sz \in SizeResults :
        IF ~sz.ok
        THEN Panic("init_buffer", <<>>)          \* size().unwrap()
        ELSE InitBufferSized(sz)

(***************************************************************************)
(* A cell write by the caller through the pointer of get_buffer_ptr: the   *)
(* three words of one whole cell within the buffer's length.               *)
(***************************************************************************)
\* the words of cell idx become those of c
WriteCell(idx, c) ==
    /\ cb' = Some([cb.v EXCEPT !.data[3 * idx] = c[1],
                               !.data[3 * idx + 1] = c[2],
                               !.data[3 * idx + 2] = c[3]])
    /\ writes' = writes + 1
    /\ Called("write")
    /\ emitted' = <<>>
    /\ UNCHANGED <<lb, term_size, frames, heap, crashed, ret, allocated, solved, screen>>

write ==
    /\ ~crashed
    /\ cb.some
    /\ writes < MaxWrites
    /\ \E idx \in 0..(WholeCells - 1), c \in CellValues : WriteCell(idx, c)

(***************************************************************************)
(* flush                                                                   *)
(***************************************************************************)
\* Faulty variant: the previous grid is not overwritten after the scan.
CopyBack_none(a) == UNCHANGED <<cb, lb, heap>>

\* Faulty variant: the two grids trade places, the clone becoming the current grid.
CopyBack_swap(a) ==
    /\ lb' = cb
    /\ cb' = Some([addr |-> a, data |-> cb.v.data])
    /\ heap' = (heap \cup {a}) \ {lb.v.addr}

\* Faulty variant: only the words of the visible cells are copied back.
CopyBack_used(a) ==
    /\ lb' = Some([addr |-> a,
                   data |-> [i \in DOMAIN cb.v.data |->
                               IF i < term_size[1] * term_size[2] * 3
                               THEN cb.v.data[i] ELSE lb.v.data[i]]])
    /\ heap' = (heap \cup {a}) \ {lb.v.addr}
    /\ UNCHANGED cb

\* *lb = Some(buf.clone()): a new box holding the current grid's words
CopyBack(a) ==
    /\ lb' = Some([addr |-> a, data |-> cb.v.data])
    /\ heap' = (heap \cup {a}) \ {lb.v.addr}
    /\ UNCHANGED cb

\* Faulty variant: a missing grid is reported as a failure and the size forgotten.
FlushNoGrid_fail ==
    /\ Called("flush")
    /\ ret' = 0
    /\ emitted' = <<>>
    /\ term_size' = <<0, 0>>
    /\ UNCHANGED <<cb, lb, frames, heap, crashed, writes, allocated, solved, screen>>

\* the None arms of the two matches: nothing is done, 1 is returned
FlushNoGrid ==
    /\ Called("flush")
    /\ ret' = 1
    /\ emitted' = <<>>
    /\ UNCHANGED <<cb, lb, term_size, frames, heap, crashed, writes, allocated, solved, screen>>

flush ==
    /\ ~crashed
    /\ IF cb.some /\ lb.some
       THEN LET w == term_size[1]
                h == term_size[2]
                used_cells == w * h
            IN  IF ~SliceInRange(used_cells)
                THEN Panic("flush", <<>>)
                ELSE LET r == ScanFrom(cb.v.data, lb.v.data, w, used_cells, 0, <<>>)
                     IN  IF r.panicked
                         THEN Panic("flush", r.out)
                         ELSE \E io_ok \in BOOLEAN :
                                IF ~io_ok
                                THEN Panic("flush", r.out)   \* queue!(..).unwrap(), stdout.flush().unwrap()
                                ELSE /\ \E a \in Addr \ heap : CopyBack(a)
                                     /\ Called("flush")
                                     /\ ret' = 1
                                     /\ emitted' = r.out
                                     /\ screen' = IF screen.some
                                                  THEN Some(Paint(screen.v, r.out))
                                                  ELSE screen
                                     /\ UNCHANGED <<term_size, frames, crashed, writes,
                                                    allocated, solved>>
       ELSE FlushNoGrid

(***************************************************************************)
(* free_buffer                                                             *)
(***************************************************************************)
ResetCmds == <<[cmd |-> "SetBackgroundColor", color |-> "Reset"],
               [cmd |-> "SetForegroundColor", color |-> "Reset"],
               [cmd |-> "Clear", what |-> "All"]>>

\* Faulty variant: only the current grid is released.
ReleaseGrids_current ==
    /\ cb' = None
    /\ heap' = heap \ (IF cb.some THEN {cb.v.addr} ELSE {})
    /\ UNCHANGED <<lb, frames>>

\* *CURRENT_BUFFER.lock().unwrap() = None; *LAST_BUFFER.lock().unwrap() = None;
ReleaseGrids ==
    /\ cb' = None
    /\ lb' = None
    /\ heap' = heap \ ((IF cb.some THEN {cb.v.addr} ELSE {})
                         \cup (IF lb.some THEN {lb.v.addr} ELSE {}))
    /\ UNCHANGED frames

free_buffer ==
    /\ ~crashed
    /\ ReleaseGrids
    /\ Called("free_buffer")
    /\ \E io_ok \in BOOLEAN :
        IF io_ok
        THEN /\ ret' = 1
             /\ emitted' = ResetCmds
             /\ screen' = IF screen.some THEN Some(Blank) ELSE screen
             /\ UNCHANGED crashed
        ELSE /\ crashed' = TRUE                     \* execute!(..).unwrap()
             /\ emitted' = <<>>
             /\ UNCHANGED <<ret, screen>>
    /\ allocated' = FALSE
    /\ UNCHANGED <<term_size, writes, solved>>

(***************************************************************************)
(* update_terminal_size, get_width, get_height                             *)
(***************************************************************************)
update_terminal_size ==
    /\ ~crashed
    /\ \E sz \in SizeResults :
        IF ~sz.ok
        THEN Panic("update_terminal_size", <<>>)
        ELSE /\ term_size' = <<sz.w, sz.h>>
             /\ Called("update_terminal_size")
             /\ ret' = 1
             /\ emitted' = <<>>
             /\ UNCHANGED <<cb, lb, frames, heap, crashed, writes, allocated, solved, screen>>

\* term_size.0 and term_size.1
Width == term_size[1]
Height == term_size[2]

\* The getters take a lock, read and return: a call changes no variable, and
\* what it returns in a state is Width, Height, BufferPtr, BufferLen,
\* FramesPtr, FramesLen of that state.
get_width == ~crashed /\ UNCHANGED vars
get_height == ~crashed /\ UNCHANGED vars

(***************************************************************************)
(* get_buffer_ptr, get_buffer_len, get_frames_ptr, get_frames_len          *)
(***************************************************************************)
get_buffer_ptr == ~crashed /\ UNCHANGED vars
get_buffer_len == ~crashed /\ UNCHANGED vars
get_frames_ptr == ~crashed /\ UNCHANGED vars
get_frames_len == ~crashed /\ UNCHANGED vars

(***************************************************************************)
(* calculate_layout                                                        *)
(***************************************************************************)
\* *FRAMES.lock().unwrap() = Some(frames): the new vector replaces the old
StoreFrames(a, data) ==
    /\ frames' = Some([addr |-> a, data |-> data])
    /\ heap' = (heap \cup {a}) \ (IF frames.some THEN {frames.v.addr} ELSE {})

\* calculate_layout on the payload doc
LayoutRequest(doc) ==
    LET parsed == from_slice(doc)
    IN  /\ arg' = Some(doc)
        /\ IF ~parsed.ok
           THEN Panic("calculate_layout", <<>>)     \* from_slice(..).unwrap()
           ELSE /\ \E a \in Addr \ heap :
                     StoreFrames(a, build_frames_array(compute_layout(parsed.tree), <<>>, 0, 0))
                /\ Called("calculate_layout")
                /\ ret' = 1
                /\ emitted' = <<>>
                /\ solved' = TRUE
                /\ UNCHANGED <<cb, lb, term_size, crashed, writes, allocated, screen>>

calculate_layout ==
    /\ ~crashed
    /\ \E doc \in Payloads : LayoutRequest(doc)

Next ==
    \/ init_buffer
    \/ write
    \/ flush
    \/ free_buffer
    \/ update_terminal_size
    \/ get_width
    \/ get_height
    \/ get_buffer_ptr
    \/ get_buffer_len
    \/ get_frames_ptr
    \/ get_frames_len
    \/ calculate_layout

Spec == Init /\ [][Next]_vars

(***************************************************************************)
(* The colour words.  A caller packs the channels of a colour into the low *)
(* 24 bits of a cell's fg or bg word; flush decodes them (Rgb).  Under     *)
(* SpecPack one colour is given, and the caller allocates the grids on a   *)
(* terminal of one cell, writes that cell with the colour packed into its  *)
(* fg word and the colour's rotation packed into its bg word, and flushes. *)
(***************************************************************************)
\* a channel is a u8
Channel == 0..255
\* (r << 16) | (g << 8) | b
Pack(rgb) == rgb[1] * 65536 + rgb[2] * 256 + rgb[3]
Rotated(rgb) == <<rgb[3], rgb[1], rgb[2]>>
\* every value of each channel, the other two channels at an extreme
PackInputs ==
    {<<v, e[1], e[2]>> : v \in Channel, e \in {0, 255} \X {0, 255}}
        \cup {<<e[1], v, e[2]>> : v \in Channel, e \in {0, 255} \X {0, 255}}
        \cup {<<e[1], e[2], v>> : v \in Channel, e \in {0, 255} \X {0, 255}}

InitPack ==
    /\ Statics
    /\ given \in {Some(rgb) : rgb \in PackInputs}
    /\ screen = None

pack_init_buffer ==
    /\ ~crashed
    /\ ~cb.some
    /\ InitBufferSized([ok |-> TRUE, w |-> 1, h |-> 1])

pack_write ==
    /\ ~crashed
    /\ cb.some
    /\ writes = 0
    /\ WriteCell(0, <<65, Pack(given.v), Pack(Rotated(given.v))>>)

NextPack ==
    \/ pack_init_buffer
    \/ pack_write
    \/ flush

SpecPack == InitPack /\ [][NextPack]_vars

(***************************************************************************)
(* The layout of one given tree.  Under SpecLayout the payload is given:   *)
(* any tree of up to three levels whose containers are rows and columns of *)
(* one or two children and whose leaves are texts, buttons and empty       *)
(* containers; the caller requests its layout and reads the frame list.    *)
(***************************************************************************)
TextLeaf == JsonNode("text", 0, 0, 0, 0, "hi", <<>>)
ButtonLeaf == JsonNode("button", 0, 1, 0, 0, "okay", <<>>)
RowOf(kids) == JsonNode("row", 1, 0, 0, 1, "", kids)
ColumnOf(kids) == JsonNode("column", 0, 0, 1, 0, "", kids)
\* the sequences of one or two members of S
OneOrTwo(S) == {<<a>> : a \in S} \cup {<<a, b>> : a \in S, b \in S}
Leaves == {TextLeaf, ButtonLeaf, RowOf(<<>>), ColumnOf(<<>>)}
Shallow == Leaves \cup {RowOf(k) : k \in OneOrTwo(Leaves)}
                  \cup {ColumnOf(k) : k \in OneOrTwo(Leaves)}
Deep == Leaves \cup {RowOf(k) : k \in OneOrTwo(Shallow)}
               \cup {ColumnOf(k) : k \in OneOrTwo(Shallow)}
LayoutDocs == {[node |-> n, width |-> 9, height |-> 5] : n \in Deep}

InitLayout ==
    /\ Statics
    /\ given \in {Some(doc) : doc \in LayoutDocs}
    /\ screen = None

layout_given ==
    /\ ~crashed
    /\ LayoutRequest(given.v)

NextLayout ==
    \/ layout_given
    \/ get_frames_ptr
    \/ get_frames_len

SpecLayout == InitLayout /\ [][NextLayout]_vars

(***************************************************************************)
(* The renderer with its display observed.  Under SpecScreen the terminal  *)
(* starts cleared, and one caller allocates the grids, writes cells,       *)
(* refreshes the terminal size and flushes, in any order.                  *)
(***************************************************************************)
InitScreen ==
    /\ Statics
    /\ given = None
    /\ screen = Some(Blank)

NextScreen ==
    \/ init_buffer
    \/ write
    \/ update_terminal_size
    \/ flush

SpecScreen == InitScreen /\ [][NextScreen]_vars

(***************************************************************************)
(* The exported functions called from two threads.  A call is a sequence   *)
(* of steps, one for each mutex it locks: a step that locks waits until    *)
(* the mutex is free.  A guard bound to a name is held until the function  *)
(* returns; the guard of a temporary is dropped at the end of its          *)
(* statement.  Cell writes go through the raw pointer and take no lock.    *)
(* Under SpecConc the terminal keeps one size, on which both whole cells   *)
(* of the grid are visible, its I/O succeeds, and the display is observed. *)
(***************************************************************************)
ConcSizes == {[ok |-> TRUE, w |-> 2, h |-> 1]}
ConcCells == {<<65, 16711680, 0>>}
ConcPayloads == {DocLeaf}

\* where a call starts: init_buffer has read size() and waits for
\* TERMINAL_SIZE; calculate_layout has solved the layout and waits for FRAMES;
\* the others wait for their first mutex
Entries ==
    {[at |-> "ib_lock_size", sz |-> sz] : sz \in ConcSizes}
        \cup {[at |-> "cl_lock_frames", doc |-> doc] : doc \in ConcPayloads}
        \cup {[at |-> a] : a \in {"fl_lock_cb", "fb_lock_cb", "us_lock_size",
                                   "gs_lock_size", "gb_lock_cb", "gf_lock_frames"}}

Goto(t, r) == pc' = [pc EXCEPT ![t] = r]
Locked(l, t) == lock' = [lock EXCEPT ![l] = t]
\* the guards of t are dropped as its function returns
Released(t) == lock' = [l \in LockNames |-> IF lock[l] = t THEN 0 ELSE lock[l]]
\* the history of the single caller stands still
NoHistory == UNCHANGED <<lastOp, ret, emitted, arg, streak, allocated, solved, given>>

InitConc ==
    /\ Statics
    /\ given = None
    /\ screen = Some(Blank)

\* a thread calls one of the functions
c_call(t) ==
    /\ ~crashed
    /\ pc[t] = Idle
    /\ \E e \in Entries : Goto(t, e)
    /\ NoHistory
    /\ UNCHANGED <<cb, lb, term_size, frames, heap, crashed, writes, screen, lock>>

\* init_buffer: let mut term_size = TERMINAL_SIZE.lock().unwrap(); *term_size = (w, h);
c_ib_size(t) ==
    /\ ~crashed
    /\ pc[t].at = "ib_lock_size"
    /\ lock["TERMINAL_SIZE"] = 0
    /\ Locked("TERMINAL_SIZE", t)
    /\ term_size' = <<pc[t].sz.w, pc[t].sz.h>>
    /\ Goto(t, [at |-> "ib_lock_cb"])
    /\ NoHistory
    /\ UNCHANGED <<cb, lb, frames, heap, crashed, writes, screen>>

\* init_buffer: let mut cb = CURRENT_BUFFER.lock().unwrap(); *cb = Some(Box::new(..));
c_ib_cb(t) ==
    /\ ~crashed
    /\ pc[t].at = "ib_lock_cb"
    /\ lock["CURRENT_BUFFER"] = 0
    /\ Locked("CURRENT_BUFFER", t)
    /\ \E a \in Addr \ heap :
        /\ cb' = Some([addr |-> a, data |-> ZeroBuffer])
        /\ heap' = (heap \cup {a}) \ (IF cb.some THEN {cb.v.addr} ELSE {})
    /\ writes' = 0
    /\ Goto(t, [at |-> "ib_lock_lb"])
    /\ NoHistory
    /\ UNCHANGED <<lb, term_size, frames, crashed, screen>>

\* init_buffer: let mut lb = LAST_BUFFER.lock().unwrap(); *lb = Some(buf.clone()); 1
c_ib_lb(t) ==
    /\ ~crashed
    /\ pc[t].at = "ib_lock_lb"
    /\ lock["LAST_BUFFER"] = 0
    /\ IF cb.some                      \* if let Some(ref buf) = *cb
       THEN \E b \in Addr \ heap :
               /\ lb' = Snapshot(b, cb.v.data)
               /\ heap' = (heap \cup {b}) \ (IF lb.some THEN {lb.v.addr} ELSE {})
       ELSE UNCHANGED <<lb, heap>>
    /\ screen' = IF screen.some THEN Some(Blank) ELSE screen
    /\ Released(t)
    /\ Goto(t, Idle)
    /\ NoHistory
    /\ UNCHANGED <<cb, term_size, frames, crashed, writes>>

\* flush: let cb = CURRENT_BUFFER.lock().unwrap();
c_fl_cb(t) ==
    /\ ~crashed
    /\ pc[t].at = "fl_lock_cb"
    /\ lock["CURRENT_BUFFER"] = 0
    /\ Locked("CURRENT_BUFFER", t)
    /\ Goto(t, [at |-> "fl_lock_lb"])
    /\ NoHistory
    /\ UNCHANGED <<cb, lb, term_size, frames, heap, crashed, writes, screen>>

\* flush: let mut lb = LAST_BUFFER.lock().unwrap(); and the two matches:
\* with a grid missing the function returns 1
c_fl_lb(t) ==
    /\ ~crashed
    /\ pc[t].at = "fl_lock_lb"
    /\ lock["LAST_BUFFER"] = 0
    /\ IF cb.some /\ lb.some
       THEN /\ Locked("LAST_BUFFER", t)
            /\ Goto(t, [at |-> "fl_lock_size"])
       ELSE /\ Released(t)
            /\ Goto(t, Idle)
    /\ NoHistory
    /\ UNCHANGED <<cb, lb, term_size, frames, heap, crashed, writes, screen>>

\* flush: let term_size = TERMINAL_SIZE.lock().unwrap();
c_fl_size(t) ==
    /\ ~crashed
    /\ pc[t].at = "fl_lock_size"
    /\ lock["TERMINAL_SIZE"] = 0
    /\ Locked("TERMINAL_SIZE", t)
    /\ Goto(t, [at |-> "fl_scan"])
    /\ NoHistory
    /\ UNCHANGED <<cb, lb, term_size, frames, heap, crashed, writes, screen>>

\* flush: the scan of the visible cells, which queues the updates
c_fl_scan(t) ==
    /\ ~crashed
    /\ pc[t].at = "fl_scan"
    /\ LET w == term_size[1]
           used_cells == w * term_size[2]
       IN  IF ~SliceInRange(used_cells)
           THEN crashed' = TRUE /\ UNCHANGED pc
           ELSE LET r == ScanFrom(cb.v.data, lb.v.data, w, used_cells, 0, <<>>)
                IN  IF r.panicked
                    THEN crashed' = TRUE /\ UNCHANGED pc
                    ELSE Goto(t, [at |-> "fl_copy", out |-> r.out]) /\ UNCHANGED crashed
    /\ NoHistory
    /\ UNCHANGED <<cb, lb, term_size, frames, heap, writes, screen, lock>>

\* flush: stdout.flush(); *lb = Some(buf.clone()); 1
c_fl_copy(t) ==
    /\ ~crashed
    /\ pc[t].at = "fl_copy"
    /\ \E a \in Addr \ heap : CopyBack(a)
    /\ screen' = IF screen.some THEN Some(Paint(screen.v, pc[t].out)) ELSE screen
    /\ Released(t)
    /\ Goto(t, Idle)
    /\ NoHistory
    /\ UNCHANGED <<term_size, frames, crashed, writes>>

\* Faulty variant: the current grid is released without taking its mutex.
c_fb_cb_unlocked(t) ==
    /\ ~crashed
    /\ pc[t].at = "fb_lock_cb"
    /\ cb' = None
    /\ heap' = heap \ (IF cb.some THEN {cb.v.addr} ELSE {})
    /\ Goto(t, [at |-> "fb_lock_lb"])
    /\ NoHistory
    /\ UNCHANGED <<lb, term_size, frames, crashed, writes, screen, lock>>

\* free_buffer: *CURRENT_BUFFER.lock().unwrap() = None;
c_fb_cb(t) ==
    /\ ~crashed
    /\ pc[t].at = "fb_lock_cb"
    /\ lock["CURRENT_BUFFER"] = 0
    /\ cb' = None
    /\ heap' = heap \ (IF cb.some THEN {cb.v.addr} ELSE {})
    /\ Goto(t, [at |-> "fb_lock_lb"])
    /\ NoHistory
    /\ UNCHANGED <<lb, term_size, frames, crashed, writes, screen, lock>>

\* free_buffer: *LAST_BUFFER.lock().unwrap() = None;
c_fb_lb(t) ==
    /\ ~crashed
    /\ pc[t].at = "fb_lock_lb"
    /\ lock["LAST_BUFFER"] = 0
    /\ lb' = None
    /\ heap' = heap \ (IF lb.some THEN {lb.v.addr} ELSE {})
    /\ Goto(t, [at |-> "fb_reset"])
    /\ NoHistory
    /\ UNCHANGED <<cb, term_size, frames, crashed, writes, screen, lock>>

\* free_buffer: execute!(.., Clear(ClearType::All)); 1
c_fb_reset(t) ==
    /\ ~crashed
    /\ pc[t].at = "fb_reset"
    /\ screen' = IF screen.some THEN Some(Blank) ELSE screen
    /\ Goto(t, Idle)
    /\ NoHistory
    /\ UNCHANGED <<cb, lb, term_size, frames, heap, crashed, writes, lock>>

\* update_terminal_size: the guard is taken, the size stored, the guard dropped
c_update_size(t) ==
    /\ ~crashed
    /\ pc[t].at = "us_lock_size"
    /\ lock["TERMINAL_SIZE"] = 0
    /\ \E sz \in ConcSizes : term_size' = <<sz.w, sz.h>>
    /\ Goto(t, Idle)
    /\ NoHistory
    /\ UNCHANGED <<cb, lb, frames, heap, crashed, writes, screen, lock>>

\* get_width, get_height
c_get_size(t) ==
    /\ ~crashed
    /\ pc[t].at = "gs_lock_size"
    /\ lock["TERMINAL_SIZE"] = 0
    /\ Goto(t, Idle)
    /\ NoHistory
    /\ UNCHANGED <<cb, lb, term_size, frames, heap, crashed, writes, screen, lock>>

\* get_buffer_ptr, get_buffer_len
c_get_buffer(t) ==
    /\ ~crashed
    /\ pc[t].at = "gb_lock_cb"
    /\ lock["CURRENT_BUFFER"] = 0
    /\ Goto(t, Idle)
    /\ NoHistory
    /\ UNCHANGED <<cb, lb, term_size, frames, heap, crashed, writes, screen, lock>>

\* get_frames_ptr, get_frames_len
c_get_frames(t) ==
    /\ ~crashed
    /\ pc[t].at = "gf_lock_frames"
    /\ lock["FRAMES"] = 0
    /\ Goto(t, Idle)
    /\ NoHistory
    /\ UNCHANGED <<cb, lb, term_size, frames, heap, crashed, writes, screen, lock>>

\* calculate_layout: *FRAMES.lock().unwrap() = Some(frames); 1
c_layout(t) ==
    /\ ~crashed
    /\ pc[t].at = "cl_lock_frames"
    /\ lock["FRAMES"] = 0
    /\ \E a \in Addr \ heap :
         StoreFrames(a, build_frames_array(compute_layout(TreeOf(pc[t].doc)), <<>>, 0, 0))
    /\ Goto(t, Idle)
    /\ NoHistory
    /\ UNCHANGED <<cb, lb, term_size, crashed, writes, screen, lock>>

\* a cell write through the pointer of get_buffer_ptr, by a thread that is in
\* no call: no mutex is taken.  The pointer is that of the grid in
\* CURRENT_BUFFER, which no getter has returned yet while the init_buffer
\* that made it still holds the mutex.
c_write(t) ==
    /\ ~crashed
    /\ pc[t] = Idle
    /\ cb.some
    /\ \A u \in Threads : pc[u].at # "ib_lock_lb"
    /\ writes < MaxWrites
    /\ \E idx \in 0..(WholeCells - 1), c \in ConcCells :
         cb' = Some([cb.v EXCEPT !.data[3 * idx] = c[1],
                                 !.data[3 * idx + 1] = c[2],
                                 !.data[3 * idx + 2] = c[3]])
    /\ writes' = writes + 1
    /\ NoHistory
    /\ UNCHANGED <<lb, term_size, frames, heap, crashed, screen, pc, lock>>

NextConc ==
    \/ \E t \in Threads : c_call(t)
    \/ \E t \in Threads : c_ib_size(t)
    \/ \E t \in Threads : c_ib_cb(t)
    \/ \E t \in Threads : c_ib_lb(t)
    \/ \E t \in Threads : c_fl_cb(t)
    \/ \E t \in Threads : c_fl_lb(t)
    \/ \E t \in Threads : c_fl_size(t)
    \/ \E t \in Threads : c_fl_scan(t)
    \/ \E t \in Threads : c_fl_copy(t)
    \/ \E t \in Threads : c_fb_cb(t)
    \/ \E t \in Threads : c_fb_lb(t)
    \/ \E t \in Threads : c_fb_reset(t)
    \/ \E t \in Threads : c_update_size(t)
    \/ \E t \in Threads : c_get_size(t)
    \/ \E t \in Threads : c_get_buffer(t)
    \/ \E t \in Threads : c_get_frames(t)
    \/ \E t \in Threads : c_layout(t)
    \/ \E t \in Threads : c_write(t)

SpecConc == InitConc /\ [][NextConc]_vars

(***************************************************************************)
(* Properties.                                                             *)
(***************************************************************************)
UsedCells == Width * Height
EmptyCell == <<0, 0, 0>>

\* the cells among [0, w*h) in which two grids differ
DiffCells(cur, prev, w, h) ==
    {i \in 0..(w * h - 1) : i < WholeCells /\ Cell(cur, i) # Cell(prev, i)}

\* command c is the update of cell i of grid cur on a terminal of width w
IsUpdateOf(c, cur, i, w) ==
    /\ c.cmd = "Update"
    /\ c.x = i % w
    /\ c.y = i \div w
    /\ c.ch = cur[3 * i]
    /\ c.fg[1] * 65536 + c.fg[2] * 256 + c.fg[3] = cur[3 * i + 1]
    /\ c.bg[1] * 65536 + c.bg[2] * 256 + c.bg[3] = cur[3 * i + 2]

\* C1: when flush is called twice in a row with no cell write in between, the
\* second flush emits no terminal update command.
C1_IdempotentFlush == streak = 2 => emitted = <<>>

\* a second flush in a row, returned, on a grid whose visible cell 0 is written
C1_Witness ==
    /\ streak = 2
    /\ ~crashed
    /\ cb.some
    /\ UsedCells >= 1
    /\ Cell(cb.v.data, 0) # EmptyCell

\* C2: a flush of grids that differ in exactly k cells among [0, width*height)
\* emits exactly k update commands, one per differing cell i, at
\* (i % width, i / width), carrying the current grid's codepoint and colours.
C2_DiffMinimal ==
    [][(lastOp' = "flush" /\ cb.some /\ lb.some) =>
          LET diff == DiffCells(cb.v.data, lb.v.data, Width, Height)
          IN  /\ Len(emitted') = Cardinality(diff)
              /\ \A i \in diff : \E j \in 1..Len(emitted') :
                    IsUpdateOf(emitted'[j], cb.v.data, i, Width)]_vars

\* C3: after init_buffer and before any cell write, both grids exist, every
\* word of the current grid is 0 and the previous grid is a copy of it, and a
\* flush emits no update command; also when init_buffer is called again.
C3_InitSnapshot ==
    (allocated /\ writes = 0) =>
        /\ cb.some
        /\ lb.some
        /\ \A i \in 0..(MAX_BUFFER_SIZE - 1) : cb.v.data[i] = 0
        /\ lb.v.data = cb.v.data
        /\ (lastOp = "flush" => emitted = <<>>)

\* a flush that returned, made after init_buffer and before any write, on a visible grid
C3_Witness ==
    /\ allocated
    /\ writes = 0
    /\ lastOp = "flush"
    /\ ~crashed
    /\ UsedCells >= 1
    /\ SliceInRange(UsedCells)

\* C4: flush without a grid pair returns the success code, emits nothing and
\* leaves the grids, the terminal size and the frame list as they were.
C4_FlushNoGridNoOp ==
    [][(lastOp' = "flush" /\ ~(cb.some /\ lb.some)) =>
          /\ ~crashed'
          /\ ret' = 1
          /\ emitted' = <<>>
          /\ UNCHANGED <<cb, lb, term_size, frames>>]_vars

\* a flush after free_buffer, with a terminal size and a frame list to preserve
C4_Witness ==
    /\ lastOp = "flush"
    /\ ~cb.some
    /\ ~allocated
    /\ solved
    /\ term_size # <<0, 0>>
    /\ ret = 1

\* flush meets a changed cell whose codepoint word is no character
MetInvalid(cur, prev, w, h) ==
    /\ SliceInRange(w * h)
    /\ \E i \in DiffCells(cur, prev, w, h) : ~IsChar(AsU32(cur[3 * i]))

\* C5: a flush that meets a changed cell with an invalid codepoint returns a
\* failure code (it does not abort the process) and leaves the terminal size
\* and the frame list as they were.
C5_InvalidCodepointFails ==
    [][(lastOp' = "flush" /\ cb.some /\ lb.some
            /\ MetInvalid(cb.v.data, lb.v.data, Width, Height)) =>
          /\ ~crashed'
          /\ ret' # 1
          /\ UNCHANGED <<term_size, frames>>]_vars

\* C6: calculate_layout on a payload that fails to deserialize leaves the
\* frame list as it was, and the getters go on returning it.
C6_MalformedKeepsFrames ==
    [][(lastOp' = "calculate_layout" /\ ~from_slice(arg'.v).ok) =>
          /\ ~crashed'
          /\ frames' = frames
          /\ FramesPtr' = FramesPtr
          /\ FramesLen' = FramesLen]_vars

\* C7: when width*height*3 exceeds the capacity, init_buffer, and a flush
\* that scans the grid, return a failure code.
C7_CapacityExceededFails ==
    /\ (lastOp = "init_buffer" /\ ~crashed /\ UsedCells * 3 > MAX_BUFFER_SIZE)
            => ret # 1
    /\ (lastOp = "flush" /\ cb.some /\ lb.some /\ UsedCells * 3 > MAX_BUFFER_SIZE)
            => (~crashed /\ ret # 1)

\* C8: while the process runs, get_buffer_ptr returns null and get_buffer_len 0
\* exactly when no grid is allocated, and get_frames_ptr null and
\* get_frames_len 0 when no layout has been computed; otherwise the pointer
\* is a live non-null address and the length the element count.
C8_NullSentinel ==
    ~crashed =>
        /\ ~allocated => (BufferPtr = NULL /\ BufferLen = 0)
        /\ allocated => /\ BufferPtr # NULL
                        /\ BufferPtr \in heap
                        /\ BufferLen = Cardinality(DOMAIN cb.v.data)
        /\ ~solved => (FramesPtr = NULL /\ FramesLen = 0)
        /\ solved => /\ FramesPtr # NULL
                     /\ FramesPtr \in heap
                     /\ FramesLen = Len(frames.v.data)
                     /\ FramesLen > 0

\* a written grid released again, the frame list still there
C8_Witness ==
    /\ ~crashed
    /\ ~allocated
    /\ lastOp = "free_buffer"
    /\ writes > 0
    /\ solved
    /\ FramesLen = 16

\* C9 as stated: after free_buffer returns, neither the grid pair nor the
\* frame list exists, and all four getters return null / 0.
C9_TeardownResetsAll ==
    (lastOp = "free_buffer" /\ ~crashed) =>
        /\ cb = None /\ lb = None /\ frames = None
        /\ BufferPtr = NULL /\ BufferLen = 0
        /\ FramesPtr = NULL /\ FramesLen = 0

\* C9 amended: after free_buffer returns, the grid pair does not exist and
\* get_buffer_ptr / get_buffer_len return null / 0; the frame list is left
\* as it was.
C9_TeardownResetsGrids ==
    [][(lastOp' = "free_buffer" /\ ~crashed') =>
          /\ cb' = None /\ lb' = None
          /\ BufferPtr' = NULL /\ BufferLen' = 0
          /\ ret' = 1
          /\ frames' = frames
          /\ FramesPtr' = FramesPtr /\ FramesLen' = FramesLen]_vars

\* free_buffer returned after a write and a layout
C9_Witness ==
    /\ lastOp = "free_buffer"
    /\ ~crashed
    /\ writes > 0
    /\ solved
    /\ FramesPtr # NULL

\* C10: the pointer of get_buffer_ptr is changed only by init_buffer and
\* free_buffer, and that of get_frames_ptr only by calculate_layout; while
\* the grid exists its pointer is a live address that no other object has.
C10_PointerStable ==
    [][/\ lastOp' \notin {"init_buffer", "free_buffer"} => BufferPtr' = BufferPtr
       /\ lastOp' # "calculate_layout" => FramesPtr' = FramesPtr
       /\ cb'.some => /\ BufferPtr' \in heap'
                      /\ lb'.some => lb'.v.addr # BufferPtr'
                      /\ frames'.some => FramesPtr' # BufferPtr']_vars

\* a flush that emitted and copied back while a frame list exists
C10_Witness ==
    /\ lastOp = "flush"
    /\ ~crashed
    /\ emitted # <<>>
    /\ cb.some
    /\ solved

\* C18: when a flush returns with both grids present, the previous grid equals
\* the current grid word for word over the whole capacity, and the current
\* grid is as it was before the flush.
C18_CopyBackWhole ==
    [][(lastOp' = "flush" /\ ~crashed' /\ cb.some /\ lb.some) =>
          /\ lb'.some
          /\ DOMAIN lb'.v.data = 0..(MAX_BUFFER_SIZE - 1)
          /\ \A i \in 0..(MAX_BUFFER_SIZE - 1) : lb'.v.data[i] = cb'.v.data[i]
          /\ cb' = cb]_vars

\* a flush returned on a grid whose last whole cell is written and lies
\* outside the visible part
C18_Witness ==
    /\ lastOp = "flush"
    /\ ~crashed
    /\ cb.some
    /\ lb.some
    /\ UsedCells < WholeCells
    /\ Cell(cb.v.data, WholeCells - 1) # EmptyCell
    /\ emitted = <<>>

\* C17: for channels r, g, b in 0..255, a colour word packed as
\* (r << 16) | (g << 8) | b is decoded by flush to the colour (r, g, b), in
\* the foreground word and in the background word alike.
C17_RoundTrip ==
    (given.some /\ lastOp = "flush" /\ writes = 1 /\ streak = 1) =>
        /\ Len(emitted) = 1
        /\ emitted[1].ch = 65
        /\ emitted[1].fg = given.v
        /\ emitted[1].bg = Rotated(given.v)

\* a flush returned that printed the cell of a colour whose three channels differ
C17_Witness ==
    /\ given = Some(<<255, 170, 0>>)
    /\ lastOp = "flush"
    /\ ~crashed
    /\ writes = 1
    /\ emitted # <<>>

(***************************************************************************)
(* The nodes of a tree by their paths: <<>> is the root, p \o <<i>> the    *)
(* i-th child of the node at p.                                            *)
(***************************************************************************)
RECURSIVE PathsOf(_)
PathsOf(n) ==
    {<<>>} \cup UNION {{<<i>> \o p : p \in PathsOf(n.children[i])} :
                          i \in 1..Len(n.children)}

RECURSIVE NodeAt(_, _)
NodeAt(n, p) == IF p = <<>> THEN n ELSE NodeAt(n.children[Head(p)], Tail(p))

\* a proper ancestor comes first; otherwise the earlier sibling subtree does
ComesBefore(p, q) ==
    \/ Len(p) < Len(q) /\ SubSeq(q, 1, Len(p)) = p
    \/ \E k \in 1..Len(p) :
          /\ k <= Len(q)
          /\ SubSeq(p, 1, k - 1) = SubSeq(q, 1, k - 1)
          /\ p[k] < q[k]

\* the frame, in absolute coordinates, of the node at path p of a laid-out tree
RECURSIVE FrameAt(_, _, _, _)
FrameAt(layout, p, ox, oy) ==
    IF p = <<>>
    THEN <<ox + layout.x, oy + layout.y, layout.width, layout.height>>
    ELSE FrameAt(layout.children[Head(p)], Tail(p), ox + layout.x, oy + layout.y)

\* C14: after calculate_layout on a tree of n nodes the frame list holds
\* exactly 4 * n values, one (x, y, width, height) per node in pre-order: a
\* node's tuple before those of its descendants, sibling subtrees in
\* declaration order.
C14_PreOrder ==
    (given.some /\ lastOp = "calculate_layout" /\ ~crashed) =>
        LET root == TreeOf(given.v).node
            paths == PathsOf(root)
            laid == compute_layout(TreeOf(given.v))
            Rank(p) == Cardinality({q \in paths : ComesBefore(q, p)})
        IN  /\ FramesLen = 4 * Cardinality(paths)
            /\ \A p \in paths :
                  SubSeq(frames.v.data, 4 * Rank(p) + 1, 4 * Rank(p) + 4)
                      = FrameAt(laid, p, 0, 0)

\* the layout of a tree of seven nodes, two children with two children each
C14_Witness ==
    /\ given.some
    /\ lastOp = "calculate_layout"
    /\ ~crashed
    /\ Len(given.v.node.children) = 2
    /\ Len(given.v.node.children[1].children) = 2
    /\ Len(given.v.node.children[2].children) = 2
    /\ FramesLen = 28

\* C15: for every tree and every requested (width, height), the first frame
\* of the frame list calculate_layout produces has the requested width and
\* the requested height.
C15_RootSized ==
    (given.some /\ lastOp = "calculate_layout" /\ ~crashed) =>
        /\ frames.v.data[3] = given.v.width
        /\ frames.v.data[4] = given.v.height

(***************************************************************************)
(* The playground's measure function (src/playground/src/main.rs), which   *)
(* gives a text or a button its character count by one line.               *)
(***************************************************************************)
\* build_taffy_tree's node context
NodeContext(n) ==
    IF n.node_type = "text" THEN [kind |-> "Text", text |-> n.text]
    ELSE IF n.node_type = "button" THEN [kind |-> "Button", text |-> n.text]
    ELSE [kind |-> "Container"]

\* known_dimensions is a pair of Options
measure_function(known_dimensions, node_context) ==
    IF known_dimensions[1].some /\ known_dimensions[2].some
    THEN <<known_dimensions[1].v, known_dimensions[2].v>>
    ELSE IF node_context.kind \in {"Text", "Button"}
         THEN <<Len(node_context.text), 1>>
         ELSE <<0, 0>>

\* C16: in the layout produced for a request, a leaf of kind text or button
\* resolves, in each dimension its parent does not force, to its intrinsic
\* size, the number of characters of its text wide and 1 high, and a
\* non-text leaf to zero (inside the leaf's own padding and border).  A row
\* stretches its children's heights and a column its children's widths; the
\* root has no parent.
C16_IntrinsicText ==
    (given.some /\ lastOp = "calculate_layout" /\ ~crashed) =>
        LET root == TreeOf(given.v).node
            laid == compute_layout(TreeOf(given.v))
        IN  \A p \in PathsOf(root) :
              LET n == NodeAt(root, p)
                  f == FrameAt(laid, p, 0, 0)
                  parent == NodeAt(root, SubSeq(p, 1, Len(p) - 1))
                  intrinsic == measure_function(<<None, None>>, NodeContext(n))
              IN  n.children = <<>> =>
                    /\ (p = <<>> \/ ~IsColumn(parent)) => f[3] - HInset(n) = intrinsic[1]
                    /\ (p = <<>> \/ IsColumn(parent)) => f[4] - VInset(n) = intrinsic[2]

\* C20: in a sequential run of init_buffer, cell writes, update_terminal_size
\* and flush, right after each flush every position (x, y) with x < width and
\* y < height shows the cell of the current grid at index y * width + x.
C20_ScreenAgrees ==
    (screen.some /\ lastOp = "flush" /\ ~crashed /\ cb.some /\ lb.some) =>
        \A x \in 0..(Width - 1), y \in 0..(Height - 1) :
            LET shown == screen.v[<<x, y>>]
            IN  <<shown.ch, Pack(shown.fg), Pack(shown.bg)>>
                    = Cell(cb.v.data, y * Width + x)

(***************************************************************************)
(* The two threads.                                                        *)
(***************************************************************************)
\* the mutex a thread waits for where it stands, or "none"
Wants(t) ==
    CASE pc[t].at \in {"ib_lock_size", "fl_lock_size", "us_lock_size", "gs_lock_size"}
            -> "TERMINAL_SIZE"
      [] pc[t].at \in {"ib_lock_cb", "fl_lock_cb", "fb_lock_cb", "gb_lock_cb"}
            -> "CURRENT_BUFFER"
      [] pc[t].at \in {"ib_lock_lb", "fl_lock_lb", "fb_lock_lb"}
            -> "LAST_BUFFER"
      [] pc[t].at \in {"gf_lock_frames", "cl_lock_frames"}
            -> "FRAMES"
      [] OTHER -> "none"

\* C11: with the functions called from several threads, no interleaving
\* leaves two calls each waiting for a mutex the other holds (so that every
\* call returns under fair scheduling).
C11_NoLockCycle ==
    \A t \in Threads, u \in Threads :
        ~ /\ t # u
          /\ Wants(t) # "none"
          /\ Wants(u) # "none"
          /\ lock[Wants(t)] = u
          /\ lock[Wants(u)] = t

\* a flush that has found both grids and holds their mutexes
InFlight == {"fl_lock_size", "fl_scan", "fl_copy"}

\* C12: from the moment a flush has found both grids present until it has
\* finished its scan, its stream flush and its copy-back, no step of another
\* call releases or replaces either grid.
C12_NoTeardownInFlight ==
    [][\A t \in Threads :
          (pc[t].at \in InFlight /\ pc'[t].at \in InFlight) =>
              /\ cb'.some
              /\ cb'.v.addr = cb.v.addr
              /\ lb' = lb]_vars

\* a flush has scanned the grids while the other thread, inside free_buffer,
\* waits for the current grid's mutex
C12_Witness ==
    \E t \in Threads, u \in Threads :
        /\ pc[t].at = "fl_copy"
        /\ pc[u].at = "fb_lock_cb"
        /\ cb.some
        /\ lb.some

\* C13: with a writer thread and a flushing thread, whenever a flush returns,
\* every visible cell of the previous grid holds what was last printed for
\* that cell: no write is copied into the previous grid without being printed.
C13_NoOmittedChange ==
    [][\A t \in Threads :
          (pc[t].at = "fl_copy" /\ pc'[t] = Idle) =>
              \A i \in 0..(Width' * Height' - 1) :
                  LET shown == screen'.v[<<i % Width', i \div Width'>>]
                  IN  <<shown.ch, Pack(shown.fg), Pack(shown.bg)>>
                          = Cell(lb'.v.data, i)]_vars

\* C19: whenever no call is in progress, the current grid exists if and only
\* if the previous grid exists, for every interleaving of init_buffer, flush
\* and free_buffer calls.
C19_GridsTogether ==
    (\A t \in Threads : pc[t] = Idle) => (cb.some <=> lb.some)

====
